---- MODULE Spec2Model ----
(***************************************************************************)
(* The Task entity of taipy (src/taipy/task/task.py) as a state machine.   *)
(*                                                                         *)
(* Strings are sequences of tokens: a token is a single separator          *)
(* character (" " or "_") or a maximal run of other characters, so         *)
(* "my task" is <<"my", " ", "task">> and "a_b" is <<"a", "_", "b">>.      *)
(* An Optional[T] argument is a set: {} is None, {v} is the value v.       *)
(* A dict is a function; an instance is its __dict__ (vars(self)), a dict  *)
(* from attribute names to values.                                         *)
(***************************************************************************)
EXTENDS Integers, Sequences, FiniteSets, TLC

VARIABLES
    heap,       \* heap[o]: vars(o), the instance dictionary of Task object o
    captured,   \* captured[o]: {} or {d}, d = vars(o) as it was when the caller
                \* last took o.__getstate__() (history variable; the value the
                \* caller holds is the live dictionary heap[o] itself)
    uuidCount,  \* number of uuid.uuid4() calls made so far
    last        \* the last operation: its name, receiver, arguments and outcome

vars == <<heap, captured, uuidCount, last>>

-----------------------------------------------------------------------------
(* Bounds of the model *)

MaxObjs == 2    \* Task instances allocated (Task.__new__)
MaxIn == 2      \* longest input sequence passed to __init__
MaxOut == 1     \* longest output sequence passed to __init__

Objs == 1..MaxObjs

-----------------------------------------------------------------------------
(* Collaborators: taipy.common.protect_name, taipy.data.Scope, DataSource *)

\* protect_name: the space character is replaced by "_" (the other rules of
\* the docstring concern characters outside the alphabet of the model).
protect_name(name) ==
    [i \in DOMAIN name |-> IF name[i] = " " THEN "_" ELSE name[i]]

Scope == {"GLOBAL", "CYCLE", "PIPELINE", "SCENARIO"}

\* The ordering of the Scope enumeration: GLOBAL < CYCLE < PIPELINE < SCENARIO.
ScopeRank(s) ==
    CASE s = "GLOBAL" -> 1
      [] s = "CYCLE" -> 2
      [] s = "PIPELINE" -> 3
      [] s = "SCENARIO" -> 4

ScopeLeq(a, b) == ScopeRank(a) <= ScopeRank(b)

\* A DataSource as the Task sees it: its own (already sanitized) config_name
\* and its scope.
DataSource(n, s) == [config_name |-> n, scope |-> s]

N_a == <<"a">>
N_a_b == <<"a", "_", "b">>
N_id == <<"id">>

\* The data sources the callers of the model hold.
DataSources ==
    {DataSource(N_a, s) : s \in Scope}
        \cup {DataSource(N_a_b, s) : s \in {"CYCLE", "SCENARIO"}}
        \cup {DataSource(N_id, "PIPELINE")}

-----------------------------------------------------------------------------
(* Python values *)

None == {}
Some(v) == {v}
Value(opt) == CHOOSE v \in opt : TRUE

\* Truthiness of an Optional[str] / Optional[list]: None and the empty
\* string (the empty list) are false.
Truthy(opt) == opt # None /\ opt # Some(<<>>)

EmptyDict == [k \in {} |-> {}]

\* update with the fault of keeping an entry d already holds (setdefault).
update_setdefault(d, other) ==
    [k \in DOMAIN d \cup DOMAIN other |->
        IF k \in DOMAIN d THEN d[k] ELSE other[k]]

\* dict.update(other): the entries of other are written over those of d;
\* the entries of d under keys other does not hold are kept.
update(d, other) ==
    [k \in DOMAIN d \cup DOMAIN other |->
        IF k \in DOMAIN other THEN other[k] ELSE d[k]]

Values(d) == {d[k] : k \in DOMAIN d}

\* sep.join(parts)
RECURSIVE join(_, _)
join(sep, parts) ==
    IF parts = <<>> THEN <<>>
    ELSE IF Len(parts) = 1 THEN parts[1]
    ELSE parts[1] \o sep \o join(sep, Tail(parts))

\* str(uuid.uuid4()): a token no earlier call returned.
uuid4 == <<"uuid" \o ToString(uuidCount + 1)>>

-----------------------------------------------------------------------------
(* class Task *)

ID_PREFIX == <<"TASK">>
ID_SEPARATOR == <<"_">>

\* The names of the instance attributes, as stored in vars(self).
K_config_name == <<"config", "_", "name">>
K_id == <<"id">>
K_parent_id == <<"parent", "_", "id">>
K_input == <<"_", "Task", "_", "_", "input">>
K_output == <<"_", "Task", "_", "_", "output">>
K_function == <<"function">>

Fields == {K_config_name, K_id, K_parent_id, K_input, K_output, K_function}

\* The properties of the class (data descriptors).
P_input == <<"input">>
P_output == <<"output">>
P_scope == <<"scope">>
Properties == {P_input, P_output, P_scope}

\* The methods the class defines.
M_init == <<"_", "_", "init", "_", "_">>
M_hash == <<"_", "_", "hash", "_", "_">>
M_getstate == <<"_", "_", "getstate", "_", "_">>
M_setstate == <<"_", "_", "setstate", "_", "_">>
M_getattr == <<"_", "_", "getattr", "_", "_">>
Methods == {M_init, M_hash, M_getstate, M_setstate, M_getattr}

\* DictOf with the fault of keeping the first data source of a name.
RECURSIVE DictOf_first_wins(_)
DictOf_first_wins(seq) ==
    IF seq = <<>> THEN EmptyDict
    ELSE LET ds == seq[1]
         IN  update(DictOf_first_wins(Tail(seq)),
                    [k \in {ds.config_name} |-> ds])

\* {ds.config_name: ds for ds in seq}: the entries are written in the order
\* of the sequence, a later one over an earlier one with the same key.
RECURSIVE DictOf(_)
DictOf(seq) ==
    IF seq = <<>> THEN EmptyDict
    ELSE LET n == Len(seq)
             ds == seq[n]
         IN  update(DictOf(SubSeq(seq, 1, n - 1)),
                    [k \in {ds.config_name} |-> ds])

\* The outcome of a call: the value returned (ret = {v}, of Python type
\* type) or the exception raised (exc), and the entries it sent to
\* logging.error.
Return(type, v) == [ret |-> Some(v), type |-> type, exc |-> "", logged |-> <<>>]
Raise(e, logged) == [ret |-> None, type |-> "", exc |-> e, logged |-> logged]

ReturnNone == Return("NoneType", None)

\* An attribute the body of a method reads that is not there sends Python
\* back into __getattr__, which reads self.input again: the recursion ends
\* in RecursionError.
Recursion == Raise("RecursionError", <<>>)

-----------------------------------------------------------------------------
(* The methods of Task, as functions of vars(self) and the arguments *)

\* __init__: the instance dictionary it leaves behind.
Task_init(config_name, input, function, output, id, parent_id) ==
    LET cn == protect_name(config_name)
    IN  [k \in Fields |->
            CASE k = K_config_name -> cn
              [] k = K_id ->
                    IF Truthy(id) THEN Value(id)
                    ELSE join(ID_SEPARATOR, <<ID_PREFIX, cn, uuid4>>)
              [] k = K_parent_id -> parent_id
              [] k = K_input -> DictOf(input)
              [] k = K_output ->
                    DictOf(IF Truthy(output) THEN Value(output) ELSE <<>>)
              [] k = K_function -> function]

\* hash(str): equal strings have equal hashes.
StrHash(s) == <<"hash">> \o s

\* __hash__
Task_hash(self) ==
    IF K_id \in DOMAIN self THEN Return("int", StrHash(self[K_id]))
    ELSE Recursion

\* t1 == t2: the class defines no __eq__, so object.__eq__ compares the
\* references.
Task_eq(o1, o2) == Return("bool", o1 = o2)

\* The input and output properties.
Task_input(self) ==
    IF K_input \in DOMAIN self THEN Return("dict", self[K_input]) ELSE Recursion

Task_output(self) ==
    IF K_output \in DOMAIN self THEN Return("dict", self[K_output]) ELSE Recursion

\* Task_getattr with the fault of looking the outputs up before the inputs.
Task_getattr_outputs_first(self, attribute_name) ==
    LET protected_attribute_name == protect_name(attribute_name)
    IN  IF Task_output(self).exc # "" \/ Task_input(self).exc # ""
        THEN Recursion
        ELSE IF protected_attribute_name \in DOMAIN Value(Task_output(self).ret)
        THEN Return("DataSource",
                    Value(Task_output(self).ret)[protected_attribute_name])
        ELSE IF protected_attribute_name \in DOMAIN Value(Task_input(self).ret)
        THEN Return("DataSource",
                    Value(Task_input(self).ret)[protected_attribute_name])
        ELSE IF K_id \notin DOMAIN self THEN Recursion
        ELSE Raise("AttributeError",
                   <<[attribute_name |-> attribute_name, id |-> self[K_id]]>>)

\* Task_getattr with the fault of logging the failure and raising nothing.
Task_getattr_no_raise(self, attribute_name) ==
    LET protected_attribute_name == protect_name(attribute_name)
    IN  IF Task_input(self).exc # "" \/ Task_output(self).exc # ""
        THEN Recursion
        ELSE IF protected_attribute_name \in DOMAIN Value(Task_input(self).ret)
        THEN Return("DataSource",
                    Value(Task_input(self).ret)[protected_attribute_name])
        ELSE IF protected_attribute_name \in DOMAIN Value(Task_output(self).ret)
        THEN Return("DataSource",
                    Value(Task_output(self).ret)[protected_attribute_name])
        ELSE IF K_id \notin DOMAIN self THEN Recursion
        ELSE [ret |-> Some(None), type |-> "NoneType", exc |-> "",
              logged |-> <<[attribute_name |-> attribute_name,
                            id |-> self[K_id]]>>]

\* __getattr__
Task_getattr(self, attribute_name) ==
    LET protected_attribute_name == protect_name(attribute_name)
    IN  IF Task_input(self).exc # "" THEN Recursion
        ELSE IF protected_attribute_name \in DOMAIN Value(Task_input(self).ret)
        THEN Return("DataSource",
                    Value(Task_input(self).ret)[protected_attribute_name])
        ELSE IF Task_output(self).exc # "" THEN Recursion
        ELSE IF protected_attribute_name \in DOMAIN Value(Task_output(self).ret)
        THEN Return("DataSource",
                    Value(Task_output(self).ret)[protected_attribute_name])
        ELSE IF K_id \notin DOMAIN self THEN Recursion
        ELSE Raise("AttributeError",
                   <<[attribute_name |-> attribute_name, id |-> self[K_id]]>>)

\* MinScope with the fault of taking the highest scope.
MinScope_max(data_sources) ==
    CHOOSE s \in {ds.scope : ds \in data_sources} :
        \A ds \in data_sources : ScopeLeq(ds.scope, s)

\* min(ds.scope for ds in data_sources)
MinScope(data_sources) ==
    CHOOSE s \in {ds.scope : ds \in data_sources} :
        \A ds \in data_sources : ScopeLeq(s, ds.scope)

\* Task_scope with the fault of leaving the outputs out.
Task_scope_inputs_only(self) ==
    IF Task_input(self).exc # "" \/ Task_output(self).exc # "" THEN Recursion
    ELSE LET data_sources == Values(Value(Task_input(self).ret))
         IN  Return("Scope", IF data_sources # {} THEN MinScope(data_sources)
                             ELSE "GLOBAL")

\* The scope property.
Task_scope(self) ==
    IF Task_input(self).exc # "" \/ Task_output(self).exc # "" THEN Recursion
    ELSE LET data_sources == Values(Value(Task_input(self).ret))
                                 \cup Values(Value(Task_output(self).ret))
         IN  Return("Scope", IF data_sources # {} THEN MinScope(data_sources)
                             ELSE "GLOBAL")

\* The Python type of the value each instance attribute holds.
FieldType(k) ==
    CASE k \in {K_config_name, K_id} -> "str"
      [] k = K_parent_id -> "Optional[str]"
      [] k \in {K_input, K_output} -> "dict"
      [] k = K_function -> "function"

\* getattr(task, name), the attribute-style access: a property of the
\* class, then an entry of the instance dictionary, then a method of the
\* class are found by the normal lookup; __getattr__ is called only for a
\* name that lookup does not find.
Task_getattribute(self, name) ==
    IF name = P_input THEN Task_input(self)
    ELSE IF name = P_output THEN Task_output(self)
    ELSE IF name = P_scope THEN Task_scope(self)
    ELSE IF name \in DOMAIN self THEN Return(FieldType(name), self[name])
    ELSE IF name \in Methods THEN Return("method", name)
    ELSE Task_getattr(self, name)

-----------------------------------------------------------------------------
(* Operations *)

NoArgs == [none |-> {}]

Init ==
    /\ heap = [o \in Objs |-> EmptyDict]
    /\ captured = [o \in Objs |-> {}]
    /\ uuidCount = 0
    /\ last = [op |-> "new", obj |-> 0, args |-> NoArgs, out |-> ReturnNone]

\* Task(config_name, input, function, output, id, parent_id): __init__ on
\* the fresh instance o (no field yet, no snapshot of it handed out), the
\* arguments a record of the set args.
Construct(o, args) ==
    /\ heap[o] = EmptyDict
    /\ captured[o] = {}
    /\ \E a \in args :
        /\ heap' = [heap EXCEPT ![o] =
                      Task_init(a.config_name, a.input, a.function, a.output,
                                a.id, a.parent_id)]
        /\ uuidCount' = IF Truthy(a.id) THEN uuidCount ELSE uuidCount + 1
        /\ last' = [op |-> "init", obj |-> o, args |-> a, out |-> ReturnNone]
    /\ UNCHANGED captured

\* o.__getstate__(): vars(o) itself is what the caller gets.
Task_getstate(o) ==
    /\ captured' = [captured EXCEPT ![o] = {heap[o]}]
    /\ last' = [op |-> "getstate", obj |-> o, args |-> NoArgs,
                out |-> Return("dict", o)]
    /\ UNCHANGED <<heap, uuidCount>>

\* o.__setstate__(state), state the dictionary taken from src.__getstate__().
Task_setstate(o, src) ==
    /\ captured[src] # {}
    /\ heap' = [heap EXCEPT ![o] = update(heap[o], heap[src])]
    /\ last' = [op |-> "setstate", obj |-> o, args |-> [state |-> src],
                out |-> ReturnNone]
    /\ UNCHANGED <<captured, uuidCount>>

\* getattr(o, name)
GetAttr(o, name) ==
    /\ last' = [op |-> "getattr", obj |-> o, args |-> [name |-> name],
                out |-> Task_getattribute(heap[o], name)]
    /\ UNCHANGED <<heap, captured, uuidCount>>

\* hash(o)
Hash(o) ==
    /\ last' = [op |-> "hash", obj |-> o, args |-> NoArgs,
                out |-> Task_hash(heap[o])]
    /\ UNCHANGED <<heap, captured, uuidCount>>

\* o == other
Eq(o, other) ==
    /\ last' = [op |-> "eq", obj |-> o, args |-> [other |-> other],
                out |-> Task_eq(o, other)]
    /\ UNCHANGED <<heap, captured, uuidCount>>

-----------------------------------------------------------------------------
(* The arguments the callers pass *)

Seqs(S, n) == UNION {[1..m -> S] : m \in 0..n}

ConfigNames == {<<"t">>, <<"my", " ", "task">>}
IdArgs == {None, Some(<<>>), Some(<<"X">>)}
ParentIds == {None, Some(<<"P">>)}

CtorArgs(config_names, inputs, outputs, ids, parent_ids) ==
    [config_name : config_names, input : inputs, function : {"f"},
     output : outputs, id : ids, parent_id : parent_ids]

\* Attribute names asked for.
AttrNames ==
    {<<"a">>, <<"a", " ", "b">>, <<"a", "_", "b">>, <<"zz">>, K_id, P_scope,
     M_hash}

\* One task, every construction within the bounds.
WideArgs ==
    CtorArgs(ConfigNames, Seqs(DataSources, MaxIn),
             {None} \cup {Some(s) : s \in Seqs(DataSources, MaxOut)},
             IdArgs, ParentIds)

NextOne ==
    \/ Construct(1, WideArgs)
    \/ \E n \in AttrNames : GetAttr(1, n)
    \/ Hash(1)

SpecOne == Init /\ [][NextOne]_vars

\* Several tasks, a few constructions, snapshots and restores.
LifeArgs ==
    CtorArgs(ConfigNames,
             {<<DataSource(N_a, "CYCLE")>>},
             {None},
             {None, Some(<<"X">>)}, {None})

Next ==
    \/ \E o \in Objs : Construct(o, LifeArgs)
    \/ \E o \in Objs : Task_getstate(o)
    \/ \E o \in Objs, src \in Objs : Task_setstate(o, src)
    \/ \E o \in Objs, n \in {N_a, <<"zz">>} : GetAttr(o, n)
    \/ \E o \in Objs : GetAttr(o, P_scope)
    \/ \E o \in Objs : Hash(o)
    \/ \E o \in Objs, other \in Objs : Eq(o, other)

Spec == Init /\ [][Next]_vars

-----------------------------------------------------------------------------
(* Properties *)

Constructed(o) == DOMAIN heap[o] = Fields

Range(seq) == {seq[i] : i \in DOMAIN seq}

\* The output sequence __init__ folds: output or [].
OutputSeq(a) == IF a.output = None THEN <<>> ELSE Value(a.output)

\* The attribute names the normal lookup resolves on object o.
OwnAttributes(o) == Properties \cup Methods \cup DOMAIN heap[o]

\* C1: t1 == t2 holds if and only if t1.id equals t2.id.
C1_EqualityFollowsId ==
    (last.op = "eq" /\ Constructed(last.obj) /\ Constructed(last.args.other))
        => (Value(last.out.ret)
                <=> heap[last.obj][K_id] = heap[last.args.other][K_id])

\* C2: a task constructed with an explicitly supplied id X (the empty string
\* included) has id X.
C2_ExplicitIdKept ==
    (last.op = "init" /\ last.args.id # None)
        => heap[last.obj][K_id] = Value(last.args.id)

\* C3, as stated: no operation on a task, a restore from the snapshot of any
\* task included, changes the id the task has.
C3_IdNeverChanges ==
    [][\A o \in Objs : K_id \in DOMAIN heap[o] =>
            /\ K_id \in DOMAIN heap'[o]
            /\ heap'[o][K_id] = heap[o][K_id]]_vars

\* C3, amended: attribute access, scope derivation, hashing, comparison and
\* snapshot leave the id and the hash of a task as they are; a restore sets
\* the id to the id the restored snapshot holds, and leaves it as it is only
\* when the snapshot holds none.
C3_IdChangesOnlyByRestore ==
    [][\A o \in Objs : K_id \in DOMAIN heap[o] =>
            /\ K_id \in DOMAIN heap'[o]
            /\ IF /\ last'.op = "setstate"
                  /\ last'.obj = o
                  /\ K_id \in DOMAIN heap[last'.args.state]
               THEN heap'[o][K_id] = heap[last'.args.state][K_id]
               ELSE /\ heap'[o][K_id] = heap[o][K_id]
                    /\ Task_hash(heap'[o]) = Task_hash(heap[o])]_vars

\* C3, witness: a restore has given the task an id other than the one it had
\* when its own snapshot was taken.
C3_Witness ==
    /\ last.op = "setstate"
    /\ last.args.state # last.obj
    /\ captured[last.obj] # {}
    /\ K_id \in DOMAIN Value(captured[last.obj])
    /\ heap[last.obj][K_id] # Value(captured[last.obj])[K_id]
    /\ heap[last.obj][K_id] = heap[last.args.state][K_id]

\* C4: scope is GLOBAL for a task with no input and no output data source,
\* and otherwise the minimum of the scopes of the data sources in the input
\* and the output mapping.
C4_ScopeIsMinOrGlobal ==
    (last.op = "getattr" /\ last.args.name = P_scope /\ Constructed(last.obj))
        => LET bound == Values(heap[last.obj][K_input])
                            \cup Values(heap[last.obj][K_output])
           IN  /\ last.out.exc = ""
               /\ last.out.type = "Scope"
               /\ bound = {} => Value(last.out.ret) = "GLOBAL"
               /\ bound # {} =>
                    /\ \E ds \in bound : ds.scope = Value(last.out.ret)
                    /\ \A ds \in bound :
                            ScopeRank(Value(last.out.ret)) <= ScopeRank(ds.scope)

\* C4, witness: inputs of scopes SCENARIO and PIPELINE with an output of
\* scope CYCLE, and scope has returned CYCLE.
C4_Witness ==
    /\ last.op = "getattr" /\ last.args.name = P_scope
    /\ Constructed(last.obj)
    /\ {ds.scope : ds \in Values(heap[last.obj][K_input])}
            = {"SCENARIO", "PIPELINE"}
    /\ {ds.scope : ds \in Values(heap[last.obj][K_output])} = {"CYCLE"}
    /\ last.out.ret = Some("CYCLE")

\* What C5 says of an access to name on a task: the data source of the input
\* mapping under the sanitized name, else that of the output mapping.
ResolvesToDataSource(o, name, out) ==
    LET p == protect_name(name)
        input == heap[o][K_input]
        output == heap[o][K_output]
    IN  /\ p \in DOMAIN input =>
            out.exc = "" /\ out.type = "DataSource" /\ out.ret = {input[p]}
        /\ (p \notin DOMAIN input /\ p \in DOMAIN output) =>
            out.exc = "" /\ out.type = "DataSource" /\ out.ret = {output[p]}

\* C5, as stated: for any name, the access returns the data source the
\* sanitized name is bound to, in the inputs first and then in the outputs.
C5_AnyNameResolves ==
    (last.op = "getattr" /\ Constructed(last.obj))
        => ResolvesToDataSource(last.obj, last.args.name, last.out)

\* C5, amended: for any name that is not an attribute of the task itself
\* (a field, a property or a method), the access returns the data source the sanitized
\* name is bound to, in the inputs first and then in the outputs.
C5_ForeignNameResolves ==
    (/\ last.op = "getattr"
     /\ Constructed(last.obj)
     /\ last.args.name \notin OwnAttributes(last.obj))
        => ResolvesToDataSource(last.obj, last.args.name, last.out)

\* C5, witness: the name "a b" is asked for, "a_b" is a key of the inputs and
\* of the outputs with different data sources, and the input one is returned.
C5_Witness ==
    /\ last.op = "getattr" /\ last.args.name = <<"a", " ", "b">>
    /\ Constructed(last.obj)
    /\ N_a_b \in DOMAIN heap[last.obj][K_input]
    /\ N_a_b \in DOMAIN heap[last.obj][K_output]
    /\ heap[last.obj][K_input][N_a_b] # heap[last.obj][K_output][N_a_b]
    /\ last.out.ret = {heap[last.obj][K_input][N_a_b]}

\* What C6 says of a step that accesses a name bound in neither mapping: the
\* attribute-not-found error, one log entry naming the attribute and the id
\* of the task, and no field of the task changed.
FailsAndLogsOnce(o, name) ==
    /\ last'.out.exc = "AttributeError"
    /\ last'.out.ret = None
    /\ last'.out.logged = <<[attribute_name |-> name, id |-> heap[o][K_id]]>>
    /\ heap'[o] = heap[o]

Unbound(o, name) ==
    /\ protect_name(name) \notin DOMAIN heap[o][K_input]
    /\ protect_name(name) \notin DOMAIN heap[o][K_output]

\* C6, as stated: an access to any name whose sanitized form is a key of
\* neither mapping fails, logs once and changes no field.
C6_AnyUnboundNameFails ==
    [][(/\ last'.op = "getattr"
        /\ Constructed(last'.obj)
        /\ Unbound(last'.obj, last'.args.name))
            => FailsAndLogsOnce(last'.obj, last'.args.name)]_vars

\* C6, amended: an access to a name that is not an attribute of the task
\* itself (a field, a property or a method) and whose sanitized form is a key of
\* neither mapping fails, logs once and changes no field.
C6_ForeignUnboundNameFails ==
    [][(/\ last'.op = "getattr"
        /\ Constructed(last'.obj)
        /\ last'.args.name \notin OwnAttributes(last'.obj)
        /\ Unbound(last'.obj, last'.args.name))
            => FailsAndLogsOnce(last'.obj, last'.args.name)]_vars

\* C6, witness: "zz" is asked of a task that has data sources, none of them
\* under that name; the access has failed with one log entry.
C6_Witness ==
    /\ last.op = "getattr" /\ last.args.name = <<"zz">>
    /\ Constructed(last.obj)
    /\ heap[last.obj][K_input] # EmptyDict
    /\ heap[last.obj][K_output] # EmptyDict
    /\ last.out.exc = "AttributeError"
    /\ Len(last.out.logged) = 1

\* C7: restoring a snapshot into any instance gives the instance the fields
\* the snapshot's task had when the snapshot was captured.
C7_RestoreGivesCapturedFields ==
    last.op = "setstate"
        => LET then == Value(captured[last.args.state])
           IN  \A k \in DOMAIN then :
                    /\ k \in DOMAIN heap[last.obj]
                    /\ heap[last.obj][k] = then[k]

\* C8: after a restore the fields of the task and their values are exactly
\* those of the snapshot.
C8_RestoreReplacesAllFields ==
    last.op = "setstate" => heap[last.obj] = heap[last.args.state]

\* The last index of seq that holds a data source of the name.
LastIndexOf(seq, name) ==
    CHOOSE i \in DOMAIN seq :
        /\ seq[i].config_name = name
        /\ \A j \in DOMAIN seq : seq[j].config_name = name => j <= i

\* The mapping has one entry for each name of the sequence, the last data
\* source of that name.
LastWriteWins(mapping, seq) ==
    /\ DOMAIN mapping = {ds.config_name : ds \in Range(seq)}
    /\ \A name \in DOMAIN mapping :
            mapping[name] = seq[LastIndexOf(seq, name)]

\* C9: the input mapping holds, for each configName of the input sequence,
\* the last data source of that name, and the output mapping the same of the
\* output sequence alone.
C9_LastWriteWinsPerNamespace ==
    last.op = "init"
        => /\ LastWriteWins(heap[last.obj][K_input], last.args.input)
           /\ LastWriteWins(heap[last.obj][K_output], OutputSeq(last.args))

\* C9, witness: two inputs named "a" and an output named "a"; the input
\* mapping holds the second input alone, the output mapping the output.
C9_Witness ==
    /\ last.op = "init"
    /\ Len(last.args.input) = 2
    /\ last.args.input[1] # last.args.input[2]
    /\ last.args.input[1].config_name = N_a
    /\ last.args.input[2].config_name = N_a
    /\ Len(OutputSeq(last.args)) = 1
    /\ OutputSeq(last.args)[1].config_name = N_a
    /\ OutputSeq(last.args)[1] # last.args.input[2]
    /\ heap[last.obj][K_input] = [k \in {N_a} |-> last.args.input[2]]
    /\ heap[last.obj][K_output] = [k \in {N_a} |-> OutputSeq(last.args)[1]]

\* C10, as stated: the scope of a task is at most the scope of every data
\* source passed in its input or output sequence.
C10_ScopeBelowEveryPassed ==
    last.op = "init"
        => \A ds \in Range(last.args.input) \cup Range(OutputSeq(last.args)) :
                ScopeLeq(Value(Task_scope(heap[last.obj]).ret), ds.scope)

\* The data sources of seq that no later one of the same name replaces.
Kept(seq) ==
    {seq[i] : i \in {j \in DOMAIN seq : j = LastIndexOf(seq, seq[j].config_name)}}

\* C10, amended: the scope of a task is at most the scope of every data
\* source passed in its input or output sequence that no later data source
\* of the same configName in the same sequence replaces.
C10_ScopeBelowEveryKept ==
    last.op = "init"
        => \A ds \in Kept(last.args.input) \cup Kept(OutputSeq(last.args)) :
                ScopeLeq(Value(Task_scope(heap[last.obj]).ret), ds.scope)

\* C10, witness: two inputs of one name and an output, the scope of the first
\* input below that of the output and that below the scope of the second
\* input; the scope of the task is that of the output.
C10_Witness ==
    /\ last.op = "init"
    /\ Len(last.args.input) = 2
    /\ last.args.input[1].config_name = last.args.input[2].config_name
    /\ ScopeRank(last.args.input[1].scope) < ScopeRank(last.args.input[2].scope)
    /\ Len(OutputSeq(last.args)) = 1
    /\ ScopeRank(last.args.input[1].scope)
            < ScopeRank(OutputSeq(last.args)[1].scope)
    /\ ScopeRank(OutputSeq(last.args)[1].scope)
            < ScopeRank(last.args.input[2].scope)
    /\ Task_scope(heap[last.obj]).ret = Some(OutputSeq(last.args)[1].scope)

====
